---------------------------- MODULE Spec2Model ----------------------------
(***************************************************************************)
(* Model of slack_summary.js: the subprocess protocol client               *)
(* (callMCPServer), the record decoder (parseCSVMessages), the channel     *)
(* fetcher (fetchChannelMessages) and the orchestrator loop (main).        *)
(*                                                                         *)
(* Text is a sequence of one-character strings.  The JSON text of one      *)
(* protocol message is one symbol of the child's output stream (an entry   *)
(* of JsonText); a line parses as JSON exactly when, after trimming, it is *)
(* one such symbol.                                                        *)
(***************************************************************************)
EXTENDS Integers, Sequences, FiniteSets, TLC

(***************************************************************************)
(* Bounds of the model.                                                    *)
(***************************************************************************)
\* Number of configured channels (CHANNELS holds 8 in the source).
NumChannels == 2
\* Longest chunk, in symbols, that one stdout 'data' event delivers.
MaxChunk == 2
\* Longest partial line, in symbols, the carry buffer may hold.
MaxBuffer == 1
\* Longest chunk, in symbols, of a 'data' event that delivers several lines.
MaxBurst == 3
\* Longest byte stream fed to the line reader on its own.
MaxStream == 3
\* Most data lines of a payload handed to the record decoder on its own.
MaxLines == 2
\* Longest content of a quoted field in such a payload.
MaxContent == 2

(***************************************************************************)
(* Strings.                                                                *)
(***************************************************************************)
NL == "\n"
Whitespace == {" ", "\t", "\r", NL}

\* String.prototype.trim
RECURSIVE TrimLeft(_)
TrimLeft(s) ==
    IF s # <<>> /\ Head(s) \in Whitespace THEN TrimLeft(Tail(s)) ELSE s

RECURSIVE TrimRight(_)
TrimRight(s) ==
    IF s # <<>> /\ s[Len(s)] \in Whitespace
    THEN TrimRight(SubSeq(s, 1, Len(s) - 1))
    ELSE s

Trim(s) == TrimRight(TrimLeft(s))

\* String.prototype.split(sep) for a one-character separator: always at
\* least one element, the last one being the text after the last separator.
RECURSIVE SplitAcc(_, _, _, _)
SplitAcc(s, sep, cur, acc) ==
    IF s = <<>> THEN Append(acc, cur)
    ELSE IF Head(s) = sep
         THEN SplitAcc(Tail(s), sep, <<>>, Append(acc, cur))
         ELSE SplitAcc(Tail(s), sep, Append(cur, Head(s)), acc)

Split(s, sep) == SplitAcc(s, sep, <<>>, <<>>)

(***************************************************************************)
(* Record decoder: parseCSVMessages.                                       *)
(***************************************************************************)
Quote == "\""
Comma == ","
UserIDHeader == <<"U", "s", "e", "r", "I", "D">>

\* The character loop over one line (j is 1-based here).
RECURSIVE ParseLineFrom(_, _, _, _, _)
ParseLineFrom(line, j, parts, current, inQuotes) ==
    IF j > Len(line) THEN Append(parts, current)
    ELSE LET char == line[j] IN
         IF char = Quote /\ (j = 1 \/ line[j - 1] = Comma)
         THEN ParseLineFrom(line, j + 1, parts, current, TRUE)
         ELSE IF char = Quote /\ inQuotes
                 /\ (j = Len(line) \/ line[j + 1] = Comma)
         THEN ParseLineFrom(line, j + 1, parts, current, FALSE)
         ELSE IF char = Comma /\ ~inQuotes
         THEN ParseLineFrom(line, j + 1, Append(parts, current), <<>>, inQuotes)
         ELSE ParseLineFrom(line, j + 1, parts, Append(current, char), inQuotes)

ParseLine(line) == ParseLineFrom(line, 1, <<>>, <<>>, FALSE)

\* parts[k] || ""  (k is 0-based as in the source)
Part(parts, k) == IF k + 1 <= Len(parts) THEN parts[k + 1] ELSE <<>>

ToMessage(parts) ==
    [UserID   |-> Part(parts, 0),
     UserName |-> Part(parts, 1),
     RealName |-> Part(parts, 2),
     Channel  |-> Part(parts, 3),
     ThreadTs |-> Part(parts, 4),
     Text     |-> Part(parts, 5),
     Time     |-> Part(parts, 6),
     Cursor   |-> Part(parts, 7)]

\* The body of the loop over lines[1..]: the messages one line contributes.
LineMessages(line) ==
    LET parts == ParseLine(line)
        message == ToMessage(parts)
    IN IF Len(parts) >= 7 /\ message.UserID # <<>> /\ message.UserID # UserIDHeader
       THEN <<message>>
       ELSE <<>>

RECURSIVE MessagesOfLines(_)
MessagesOfLines(lines) ==
    IF lines = <<>> THEN <<>>
    ELSE LineMessages(Head(lines)) \o MessagesOfLines(Tail(lines))

\* .filter((line) => line.trim())
RECURSIVE FilterNonBlank(_)
FilterNonBlank(lines) ==
    IF lines = <<>> THEN <<>>
    ELSE IF Trim(Head(lines)) # <<>>
         THEN <<Head(lines)>> \o FilterNonBlank(Tail(lines))
         ELSE FilterNonBlank(Tail(lines))

parseCSVMessages(csvData) ==
    LET lines == FilterNonBlank(Split(csvData, NL))
    IN IF Len(lines) < 2 THEN <<>> ELSE MessagesOfLines(Tail(lines))

(***************************************************************************)
(* Protocol messages.  A parsed JSON value is a record of the properties   *)
(* the handler reads: jsonrpc (truthy or not), id (0: no id), result (its  *)
(* shape, "absent" when there is none) and error (truthy or not).          *)
(***************************************************************************)
\* Two payloads of result.content[0].text.
CsvA == <<"H", NL, "U", ",", ",", ",", ",", ",", ",", "6">>
CsvB == <<"H", NL, "V", ",", ",", ",", ",", ",", ",", "4", NL,
          "W", ",", ",", ",", ",", ",", ",", "7", NL,
          "X", ",", ",", ",", ",", ",", ",">>

\* result shapes: "proto" {protocolVersion}, "noContent" {}, "emptyContent"
\* {content: []}, "noText" {content: [{}]}, "numText" {content: [{text: 5}]},
\* "csvA"/"csvB" {content: [{type: "text", text: <payload>}]}.
ContentText == [csvA |-> CsvA, csvB |-> CsvB]

\* The JSON texts the child may print, by symbol, with the value each parses to.
JsonText ==
    [ack    |-> [jsonrpc |-> TRUE, id |-> 1, result |-> "proto",     error |-> FALSE],
     res2A  |-> [jsonrpc |-> TRUE, id |-> 2, result |-> "csvA",      error |-> FALSE],
     res2B  |-> [jsonrpc |-> TRUE, id |-> 2, result |-> "csvB",      error |-> FALSE],
     res3   |-> [jsonrpc |-> TRUE, id |-> 3, result |-> "csvA",      error |-> FALSE],
     empty2 |-> [jsonrpc |-> TRUE, id |-> 2, result |-> "noContent", error |-> FALSE],
     num2   |-> [jsonrpc |-> TRUE, id |-> 2, result |-> "numText",   error |-> FALSE],
     err2   |-> [jsonrpc |-> TRUE, id |-> 2, result |-> "absent",    error |-> TRUE],
     err3   |-> [jsonrpc |-> TRUE, id |-> 3, result |-> "absent",    error |-> TRUE]]

JsonSymbols == DOMAIN JsonText

\* Stands for "no value" when JSON.parse throws.
NoJson == [jsonrpc |-> FALSE, id |-> 0, result |-> "absent", error |-> FALSE]

\* JSON.parse(line): the value, or a SyntaxError (ok is FALSE).
JSONParse(line) ==
    LET t == Trim(line)
    IN IF Len(t) = 1 /\ t[1] \in JsonSymbols
       THEN [ok |-> TRUE, json |-> JsonText[t[1]]]
       ELSE [ok |-> FALSE, json |-> NoJson]

\* json.result && json.result.protocolVersion
HasProtocolVersion(json) == json.result = "proto"
\* json.result.content && json.result.content[0] && json.result.content[0].text
HasText(json) == json.result \in {"numText", "csvA", "csvB"}
\* whether that text is a string (csvData.split exists)
TextIsString(json) == json.result \in DOMAIN ContentText

(***************************************************************************)
(* Protocol session: the closure state of one callMCPServer call.          *)
(***************************************************************************)
NoReason == [kind |-> "none", code |-> ""]

IdleSession ==
    [spawned     |-> FALSE,
     params      |-> 0,
     buffer      |-> <<>>,
     initialized |-> FALSE,
     requestSent |-> FALSE,
     timeout     |-> "none",
     promise     |-> "pending",
     value       |-> <<>>,
     reason      |-> NoReason,
     child       |-> "none",
     exitCode    |-> "",
     killed      |-> FALSE,
     stdin       |-> <<>>]

\* Variant of reject that overwrites an outcome already settled.
reject_Overwrite(s, kind, code) ==
    [s EXCEPT !.promise = "rejected", !.value = <<>>,
              !.reason = [kind |-> kind, code |-> code]]

\* Promise semantics: the first resolve or reject settles, later ones are no-ops.
resolve(s, v) ==
    IF s.promise = "pending" THEN [s EXCEPT !.promise = "resolved", !.value = v] ELSE s

reject(s, kind, code) ==
    IF s.promise = "pending"
    THEN [s EXCEPT !.promise = "rejected", !.reason = [kind |-> kind, code |-> code]]
    ELSE s

clearTimeout(s) ==
    IF s.timeout = "armed" THEN [s EXCEPT !.timeout = "cleared"] ELSE s

\* mcp.kill(): signals the child unless it has already exited.
kill(s) == IF s.child = "running" THEN [s EXCEPT !.killed = TRUE] ELSE s

\* mcp.stdin.write(JSON.stringify(request) + "\n"), recorded by request id.
stdinWrite(s, id) == [s EXCEPT !.stdin = Append(@, id)]

\* The executor of the promise: spawn, arm the timer, write 'initialize'.
callMCPServer(s, params) ==
    stdinWrite([s EXCEPT !.spawned = TRUE, !.params = params, !.child = "running",
                         !.buffer = <<>>, !.initialized = FALSE,
                         !.requestSent = FALSE, !.timeout = "armed"], 1)

\* The setTimeout callback.
OnTimeout(s) == reject(kill([s EXCEPT !.timeout = "fired"]), "Timeout", "")

\* Variant of the 'close' handler testing the exit code for truthiness
\* (if (code)), which takes the null code of a signalled child for a clean exit.
OnClose_Truthy(s, code) ==
    LET s1 == clearTimeout(s)
    IN IF code \notin {"0", "null"} THEN reject(s1, "ProcessExit", code) ELSE s1

\* The 'close' handler.
OnClose(s, code) ==
    LET s1 == clearTimeout(s)
    IN IF code # "0" THEN reject(s1, "ProcessExit", code) ELSE s1

\* First branch: the handshake acknowledgment.
OnHandshakeAck(s) ==
    LET s1 == [s EXCEPT !.initialized = TRUE]
    IN IF ~s1.requestSent
       THEN stdinWrite([s1 EXCEPT !.requestSent = TRUE], 2)
       ELSE s1

\* Variant of the second branch that resolves without killing the child.
OnResult_NoKill(s, json) ==
    LET s1 == clearTimeout(s)
    IN IF HasText(json)
       THEN IF TextIsString(json)
            THEN resolve(s1, parseCSVMessages(ContentText[json.result]))
            ELSE s1
       ELSE resolve(s1, <<>>)

\* Second branch: json.id === 2 && json.result.  parseCSVMessages throws a
\* TypeError on a text that is no string; the catch around the line swallows
\* it after clearTimeout has run and before resolve and kill.
OnResult(s, json) ==
    LET s1 == clearTimeout(s)
    IN IF HasText(json)
       THEN IF TextIsString(json)
            THEN kill(resolve(s1, parseCSVMessages(ContentText[json.result])))
            ELSE s1
       ELSE kill(resolve(s1, <<>>))

\* Third branch: json.error.
OnError(s) == kill(reject(clearTimeout(s), "ProtocolError", ""))

\* Variant of the chain whose first branch takes any result for the
\* handshake acknowledgment (no test of result.protocolVersion).
HandleJson_AnyResult(s, json) ==
    IF ~s.initialized /\ json.jsonrpc /\ json.result # "absent"
    THEN OnHandshakeAck(s)
    ELSE IF json.id = 2 /\ json.result # "absent"
    THEN OnResult(s, json)
    ELSE IF json.error
    THEN OnError(s)
    ELSE s

\* The if / else-if chain on one parsed line.
HandleJson(s, json) ==
    IF ~s.initialized /\ json.jsonrpc /\ json.result # "absent" /\ HasProtocolVersion(json)
    THEN OnHandshakeAck(s)
    ELSE IF json.id = 2 /\ json.result # "absent"
    THEN OnResult(s, json)
    ELSE IF json.error
    THEN OnError(s)
    ELSE s

\* The body of the loop over the complete lines.
HandleLine(s, line) ==
    IF Trim(line) = <<>> THEN s
    ELSE LET p == JSONParse(line)
         IN IF p.ok THEN HandleJson(s, p.json) ELSE s

\* Variant of the loop with the try around it instead of inside it: the
\* first line that is not JSON ends the handling of the chunk.
RECURSIVE HandleLines_TryOutside(_, _)
HandleLines_TryOutside(s, lines) ==
    IF lines = <<>> THEN s
    ELSE IF Trim(Head(lines)) # <<>> /\ ~JSONParse(Head(lines)).ok THEN s
    ELSE HandleLines_TryOutside(HandleLine(s, Head(lines)), Tail(lines))

RECURSIVE HandleLines(_, _)
HandleLines(s, lines) ==
    IF lines = <<>> THEN s
    ELSE HandleLines(HandleLine(s, Head(lines)), Tail(lines))

\* buffer += data; lines = buffer.split("\n"); buffer = lines.pop() || ""
SplitLines(buffer, data) ==
    LET parts == Split(buffer \o data, NL)
    IN [lines |-> SubSeq(parts, 1, Len(parts) - 1), rest |-> parts[Len(parts)]]

\* The bytes of the stream: every symbol is one byte that is one character,
\* except the two bytes C3 A9 of the two-byte character U+00E9.
LeadByte == "C3"
ContByte == "A9"
EAcute == "U+00E9"
Replacement == "U+FFFD"

\* data.toString(): the UTF-8 decoding of one chunk on its own.  A lead byte
\* without its continuation byte in the chunk, and a continuation byte
\* without its lead byte, each decode to U+FFFD.
RECURSIVE toString(_)
toString(data) ==
    IF data = <<>> THEN <<>>
    ELSE IF Head(data) = LeadByte
    THEN IF Len(data) >= 2 /\ data[2] = ContByte
         THEN <<EAcute>> \o toString(SubSeq(data, 3, Len(data)))
         ELSE <<Replacement>> \o toString(Tail(data))
    ELSE IF Head(data) = ContByte
    THEN <<Replacement>> \o toString(Tail(data))
    ELSE <<Head(data)>> \o toString(Tail(data))

\* The line reader: what one 'data' event adds to the buffer and splits off.
feed(buffer, data) == SplitLines(buffer, toString(data))

\* The stdout 'data' handler.
OnStdoutData(s, data) ==
    LET r == feed(s.buffer, data)
    IN HandleLines([s EXCEPT !.buffer = r.rest], r.lines)

(***************************************************************************)
(* Channel fetcher and orchestrator.                                       *)
(***************************************************************************)
HOURS_TO_FETCH == 24
WindowMs == HOURS_TO_FETCH * 60 * 60 * 1000

\* The instants Date.now() may return, in milliseconds from the model's origin:
\* the one at which main starts, and later ones.
StartMs == WindowMs + 4500
Instants == {StartMs, WindowMs + 5000, WindowMs + 6500}

CHANNELS == [c \in 1..NumChannels |-> [id |-> c, name |-> c]]

DigitValue ==
    [c \in {"0", "1", "2", "3", "4", "5", "6", "7", "8", "9"} |->
        CASE c = "0" -> 0 [] c = "1" -> 1 [] c = "2" -> 2 [] c = "3" -> 3
          [] c = "4" -> 4 [] c = "5" -> 5 [] c = "6" -> 6 [] c = "7" -> 7
          [] c = "8" -> 8 [] c = "9" -> 9]

RECURSIVE DigitsPrefix(_)
DigitsPrefix(t) ==
    IF t # <<>> /\ Head(t) \in DOMAIN DigitValue
    THEN <<Head(t)>> \o DigitsPrefix(Tail(t))
    ELSE <<>>

RECURSIVE DigitsValue(_, _)
DigitsValue(ds, acc) ==
    IF ds = <<>> THEN acc
    ELSE DigitsValue(Tail(ds), 10 * acc + DigitValue[Head(ds)])

\* parseFloat(text) * 1000, floored to a whole millisecond, for unsigned
\* decimal text without exponent; nan when no number starts the text.
ParseFloatMs(text) ==
    LET t == TrimLeft(text)
        ip == DigitsPrefix(t)
        afterInt == SubSeq(t, Len(ip) + 1, Len(t))
        fp == IF afterInt # <<>> /\ Head(afterInt) = "."
              THEN DigitsPrefix(Tail(afterInt))
              ELSE <<>>
        fp3 == SubSeq(fp \o <<"0", "0", "0">>, 1, 3)
    IN IF ip = <<>> /\ fp = <<>>
       THEN [nan |-> TRUE, ms |-> 0]
       ELSE [nan |-> FALSE, ms |-> 1000 * DigitsValue(ip, 0) + DigitsValue(fp3, 0)]

\* Math.floor((Date.now() - hoursAgo * 60 * 60 * 1000) / 1000)
Oldest(nowMs) == (nowMs - WindowMs) \div 1000

\* The predicate of messages.filter.
InTimeframe(m, oldestMs) ==
    /\ m.Time # <<>>
    /\ LET ts == ParseFloatMs(m.Time) IN ~ts.nan /\ ts.ms >= oldestMs

\* Variant of the filter that trusts the child's bound and keeps every record.
FilterTimeframe_None(messages, oldestMs) == messages

RECURSIVE FilterTimeframe(_, _)
FilterTimeframe(messages, oldestMs) ==
    IF messages = <<>> THEN <<>>
    ELSE IF InTimeframe(Head(messages), oldestMs)
         THEN <<Head(messages)>> \o FilterTimeframe(Tail(messages), oldestMs)
         ELSE FilterTimeframe(Tail(messages), oldestMs)

\* Variant of fetchChannelMessages without the catch block: a rejection of
\* the awaited promise propagates to the caller.
fetchChannelMessages_NoCatch(s, nowMs) ==
    IF s.promise = "resolved"
    THEN [threw |-> FALSE, value |-> FilterTimeframe(s.value, nowMs - WindowMs)]
    ELSE [threw |-> TRUE, value |-> <<>>]

\* fetchChannelMessages from the point where the awaited promise has settled:
\* the filter of the try block, or the catch block.
fetchChannelMessages(s, nowMs) ==
    IF s.promise = "resolved"
    THEN [threw |-> FALSE, value |-> FilterTimeframe(s.value, nowMs - WindowMs)]
    ELSE [threw |-> FALSE, value |-> <<>>]

(***************************************************************************)
(* State.                                                                  *)
(***************************************************************************)
VARIABLES
    sessions,        \* channel index -> closure state of its callMCPServer call
    ackSeen,         \* history: a handshake acknowledgment line was processed
    skipped,         \* history: a 'data' event held a line that is not JSON and,
                     \* after it, a line that is
    jsonOnly,        \* history: the sessions as the same events leave them when
                     \* each 'data' event hands over its JSON lines only
    deadlinePassed,  \* the 30 s since spawn have elapsed
    idx,             \* main: 0 before the loop, then the channel being awaited
    channelData,     \* main: the results pushed so far
    mainState,       \* main: "running", "done", or "failed" (main's promise rejected)
    now,             \* the wall clock, in milliseconds
    reader,          \* the line reader on its own: a byte stream and two feeds of it
    decoder          \* the record decoder on its own: a payload and its decoding

vars == <<sessions, ackSeen, skipped, jsonOnly, deadlinePassed, idx, channelData, mainState, now,
          reader, decoder>>

mainVars == <<idx, channelData, mainState, now>>

\* The state of the components run on their own.
aloneVars == <<reader, decoder>>

\* One feed of the stream: bytes consumed, carry buffer, lines yielded so far.
NewFeed == [pos |-> 0, buffer |-> <<>>, lines |-> <<>>]

NoReader == [stream |-> <<>>, a |-> NewFeed, b |-> NewFeed]

NoDecoder == [input |-> <<>>, done |-> FALSE, output |-> <<>>]

ExitCodes == {"0", "1", "null"}

\* The symbols of the child's output stream.
Alphabet == JsonSymbols \cup {NL, "x"}

Chunks == UNION {[1..n -> Alphabet] : n \in 1..MaxChunk}

\* Chunks that are one whole line.
LineChunks == {<<m, NL>> : m \in {"ack", "res2B", "num2", "err2"}}

\* Nothing has been spawned and main has not started.
InitMain ==
    /\ sessions = [c \in 1..NumChannels |-> IdleSession]
    /\ ackSeen = [c \in 1..NumChannels |-> FALSE]
    /\ skipped = [c \in 1..NumChannels |-> FALSE]
    /\ jsonOnly = [c \in 1..NumChannels |-> IdleSession]
    /\ deadlinePassed = [c \in 1..NumChannels |-> FALSE]
    /\ idx = 0
    /\ channelData = <<>>
    /\ mainState = "running"
    /\ now = StartMs

Init ==
    /\ InitMain
    /\ reader = NoReader
    /\ decoder = NoDecoder

(***************************************************************************)
(* Events of one session.                                                  *)
(***************************************************************************)
\* Whether one of the lines parses to a handshake acknowledgment.
HasAckLine(lines) ==
    \E i \in 1..Len(lines) :
        LET p == JSONParse(lines[i])
        IN p.ok /\ p.json.jsonrpc /\ HasProtocolVersion(p.json)

\* Whether the line reaches the if / else-if chain: not blank, and valid JSON.
IsJsonLine(line) == Trim(line) # <<>> /\ JSONParse(line).ok

RECURSIVE JsonLinesOnly(_)
JsonLinesOnly(lines) ==
    IF lines = <<>> THEN <<>>
    ELSE IF IsJsonLine(Head(lines))
         THEN <<Head(lines)>> \o JsonLinesOnly(Tail(lines))
         ELSE JsonLinesOnly(Tail(lines))

\* The 'data' handler run on the JSON lines of the event alone.
OnJsonLinesOnly(s, data) ==
    LET r == feed(s.buffer, data)
    IN HandleLines([s EXCEPT !.buffer = r.rest], JsonLinesOnly(r.lines))

\* Whether a line that is not JSON is followed by one that is.
HasSkippedLine(lines) ==
    \E i, j \in 1..Len(lines) : i < j /\ ~IsJsonLine(lines[i]) /\ IsJsonLine(lines[j])

\* A stdout 'data' event: the child has not closed yet.
StdoutData(c, data) ==
    /\ sessions[c].child = "running"
    /\ Len(OnStdoutData(sessions[c], data).buffer) <= MaxBuffer
    /\ sessions' = [sessions EXCEPT ![c] = OnStdoutData(@, data)]
    /\ ackSeen' = [ackSeen EXCEPT
                      ![c] = @ \/ HasAckLine(feed(sessions[c].buffer, data).lines)]
    /\ skipped' = [skipped EXCEPT
                      ![c] = @ \/ HasSkippedLine(feed(sessions[c].buffer, data).lines)]
    /\ jsonOnly' = [jsonOnly EXCEPT ![c] = OnJsonLinesOnly(@, data)]
    /\ UNCHANGED <<deadlinePassed, mainVars, aloneVars>>

\* 30 s after spawn: the timer callback runs unless the timer was cleared.
Deadline(c) ==
    /\ sessions[c].spawned
    /\ ~deadlinePassed[c]
    /\ deadlinePassed' = [deadlinePassed EXCEPT ![c] = TRUE]
    /\ sessions' = [sessions EXCEPT
                       ![c] = IF @.timeout = "armed" THEN OnTimeout(@) ELSE @]
    /\ jsonOnly' = [jsonOnly EXCEPT
                       ![c] = IF @.timeout = "armed" THEN OnTimeout(@) ELSE @]
    /\ UNCHANGED <<ackSeen, skipped, mainVars, aloneVars>>

\* The child exits and its streams close: the 'close' event.
Close(c, code) ==
    /\ sessions[c].child = "running"
    /\ sessions' = [sessions EXCEPT
                       ![c] = OnClose([@ EXCEPT !.child = "closed", !.exitCode = code],
                                      code)]
    /\ jsonOnly' = [jsonOnly EXCEPT
                       ![c] = OnClose([@ EXCEPT !.child = "closed", !.exitCode = code],
                                      code)]
    /\ UNCHANGED <<ackSeen, skipped, deadlinePassed, mainVars, aloneVars>>

(***************************************************************************)
(* One protocol session: a single callMCPServer call, on channel 1.        *)
(***************************************************************************)
Call ==
    /\ ~sessions[1].spawned
    /\ sessions' = [sessions EXCEPT ![1] = callMCPServer(@, Oldest(now))]
    /\ jsonOnly' = [jsonOnly EXCEPT ![1] = callMCPServer(@, Oldest(now))]
    /\ UNCHANGED <<ackSeen, skipped, deadlinePassed, mainVars, aloneVars>>

Next ==
    \/ Call
    \/ \E data \in Chunks : StdoutData(1, data)
    \/ Deadline(1)
    \/ \E code \in ExitCodes : Close(1, code)

Spec == Init /\ [][Next]_vars

(***************************************************************************)
(* One protocol session whose 'data' events deliver several lines at once. *)
(***************************************************************************)
BurstAlphabet == {"ack", "res2A", "err2", "x", NL}

BurstChunks == UNION {[1..n -> BurstAlphabet] : n \in 1..MaxBurst}

BurstNext ==
    \/ Call
    \/ \E data \in BurstChunks : StdoutData(1, data)
    \/ Deadline(1)
    \/ \E code \in ExitCodes : Close(1, code)

BurstSpec == Init /\ [][BurstNext]_vars

(***************************************************************************)
(* The orchestrator: main's loop over CHANNELS.                            *)
(***************************************************************************)
\* main starts: the first fetchChannelMessages runs up to its await.
MainStart ==
    /\ idx = 0
    /\ mainState = "running"
    /\ idx' = 1
    /\ sessions' = [sessions EXCEPT ![1] = callMCPServer(@, Oldest(now))]
    /\ jsonOnly' = [jsonOnly EXCEPT ![1] = callMCPServer(@, Oldest(now))]
    /\ UNCHANGED <<ackSeen, skipped, deadlinePassed, channelData, mainState, now, aloneVars>>

\* Variant without the await: the continuation runs at once.
AwaitReady_NoAwait(s) == TRUE

\* await callMCPServer(...): the continuation runs once the promise has settled.
AwaitReady(s) == s.promise # "pending"

\* The awaited promise has settled: fetchChannelMessages returns, main pushes
\* the result and runs the next iteration up to its await.
AwaitResume ==
    /\ idx \in 1..NumChannels
    /\ mainState = "running"
    /\ AwaitReady(sessions[idx])
    /\ LET r == fetchChannelMessages(sessions[idx], now)
       IN IF r.threw
          THEN /\ mainState' = "failed"
               /\ UNCHANGED <<sessions, jsonOnly, idx, channelData>>
          ELSE /\ channelData' = Append(channelData,
                                        [name |-> CHANNELS[idx].name, messages |-> r.value])
               /\ idx' = idx + 1
               /\ IF idx < NumChannels
                  THEN /\ sessions' = [sessions EXCEPT
                                          ![idx + 1] = callMCPServer(@, Oldest(now))]
                       /\ jsonOnly' = [jsonOnly EXCEPT
                                          ![idx + 1] = callMCPServer(@, Oldest(now))]
                       /\ UNCHANGED mainState
                  ELSE /\ mainState' = "done"
                       /\ UNCHANGED <<sessions, jsonOnly>>
    /\ UNCHANGED <<ackSeen, skipped, deadlinePassed, now, aloneVars>>

\* Time passes.
Tick ==
    /\ \E t \in Instants : t > now /\ now' = t
    /\ UNCHANGED <<sessions, ackSeen, skipped, jsonOnly, deadlinePassed, idx, channelData, mainState,
                   aloneVars>>

\* The clock stands still here; FetchSpec below moves it.
MainNext ==
    \/ MainStart
    \/ AwaitResume
    \/ \E c \in 1..NumChannels, data \in LineChunks : StdoutData(c, data)
    \/ \E c \in 1..NumChannels : Deadline(c)
    \/ \E c \in 1..NumChannels, code \in ExitCodes : Close(c, code)

MainSpec == Init /\ [][MainNext]_vars

(***************************************************************************)
(* One fetchChannelMessages call, on the first channel, with time passing  *)
(* between its two reads of Date.now().                                    *)
(***************************************************************************)
FetchNext ==
    \/ MainStart
    \/ idx = 1 /\ AwaitResume
    \/ Tick
    \/ \E data \in LineChunks : StdoutData(1, data)
    \/ Deadline(1)
    \/ \E code \in ExitCodes : Close(1, code)

FetchSpec == Init /\ [][FetchNext]_vars

(***************************************************************************)
(* The line reader on its own: one byte stream, cut into chunks twice.     *)
(***************************************************************************)
ByteAlphabet == {"a", NL, LeadByte, ContByte}

Streams == UNION {[1..n -> ByteAlphabet] : n \in 0..MaxStream}

\* The 'data' event's first three statements, on the next n bytes.
FeedChunk(f, stream, n) ==
    LET r == feed(f.buffer, SubSeq(stream, f.pos + 1, f.pos + n))
    IN [pos |-> f.pos + n, buffer |-> r.rest, lines |-> f.lines \o r.lines]

ReaderInit ==
    /\ InitMain
    /\ reader \in {[stream |-> st, a |-> NewFeed, b |-> NewFeed] : st \in Streams}
    /\ decoder = NoDecoder

FeedA ==
    /\ \E n \in 1..(Len(reader.stream) - reader.a.pos) :
          reader' = [reader EXCEPT !.a = FeedChunk(@, reader.stream, n)]
    /\ UNCHANGED <<sessions, ackSeen, skipped, jsonOnly, deadlinePassed, mainVars, decoder>>

FeedB ==
    /\ \E n \in 1..(Len(reader.stream) - reader.b.pos) :
          reader' = [reader EXCEPT !.b = FeedChunk(@, reader.stream, n)]
    /\ UNCHANGED <<sessions, ackSeen, skipped, jsonOnly, deadlinePassed, mainVars, decoder>>

ReaderNext == FeedA \/ FeedB

ReaderSpec == ReaderInit /\ [][ReaderNext]_vars

(***************************************************************************)
(* The record decoder on its own: payloads built from fields.              *)
(***************************************************************************)
RECURSIVE Join(_, _)
Join(items, sep) ==
    IF items = <<>> THEN <<>>
    ELSE IF Len(items) = 1 THEN items[1]
    ELSE items[1] \o <<sep>> \o Join(Tail(items), sep)

\* The fields of a data line unless stated otherwise, by position.
DefaultFields ==
    <<(<<"U">>), (<<"b">>), (<<"c">>), (<<"d">>), (<<"e">>), (<<"f">>), (<<"7">>), (<<"h">>)>>

\* Header lines: the one of the upstream tool, and one with other column names.
HeaderStd == Join(<<UserIDHeader>> \o Tail(DefaultFields), Comma)
HeaderAlt == Join(<<(<<"H">>)>> \o Tail(DefaultFields), Comma)

\* Data lines without quotes: n fields, the first one as given.
PlainLine(first, n) == Join(<<first>> \o SubSeq(DefaultFields, 2, n), Comma)

PlainLines ==
    {PlainLine(first, n) : first \in {<<>>, <<"U">>, <<"H">>, UserIDHeader}, n \in 5..8}

\* Contents of a quoted field: text with at least one comma and no quote.
Contents ==
    {t \in UNION {[1..n -> {"x", Comma}] : n \in 1..MaxContent} :
        \E i \in 1..Len(t) : t[i] = Comma}

\* The fields of a full data line whose field p (0-based) is as given.
FieldsWith(p, field) == [DefaultFields EXCEPT ![p + 1] = field]

\* A full data line whose field p is the content enclosed in double quotes.
QuotedLine(p, content) ==
    Join(FieldsWith(p, <<Quote>> \o content \o <<Quote>>), Comma)

PlainInputs ==
    {IF blank THEN <<NL>> \o Join(<<header>> \o lines, NL)
              ELSE Join(<<header>> \o lines, NL) :
        header \in {HeaderStd, HeaderAlt},
        lines \in UNION {[1..n -> PlainLines] : n \in 0..MaxLines},
        blank \in BOOLEAN}

QuotedInputs ==
    {Join(<<HeaderStd, QuotedLine(p, content)>>, NL) :
        p \in 0..(Len(DefaultFields) - 1), content \in Contents}

DecoderInit ==
    /\ InitMain
    /\ reader = NoReader
    /\ decoder \in {[input |-> t, done |-> FALSE, output |-> <<>>] :
                       t \in {<<>>} \cup PlainInputs \cup QuotedInputs}

Decode ==
    /\ ~decoder.done
    /\ decoder' = [decoder EXCEPT !.done = TRUE,
                                  !.output = parseCSVMessages(decoder.input)]
    /\ UNCHANGED <<sessions, ackSeen, skipped, jsonOnly, deadlinePassed, mainVars, reader>>

DecoderNext == Decode

DecoderSpec == DecoderInit /\ [][DecoderNext]_vars

(***************************************************************************)
(* Properties.                                                             *)
(***************************************************************************)
Channels == 1..NumChannels

\* The complete lines a 'data' event with this chunk hands to the loop.
LinesOf(c, data) == feed(sessions[c].buffer, data).lines

\* The 'data' event delivers exactly one complete line, which parses as JSON.
OneJsonLine(c, data) ==
    /\ Len(LinesOf(c, data)) = 1
    /\ Trim(LinesOf(c, data)[1]) # <<>>
    /\ JSONParse(LinesOf(c, data)[1]).ok

JsonOf(c, data) == JSONParse(LinesOf(c, data)[1]).json

IsAckShaped(json) == json.jsonrpc /\ HasProtocolVersion(json)

\* C1: in every session the 'initialize' request (id 1) is the first write to
\* the child's stdin, the 'tools/call' request (id 2) is written at most
\* once and after it, and only once a handshake acknowledgment line has
\* been received.
C1_HandshakeBeforeCall ==
    \A c \in Channels :
        /\ sessions[c].stdin \in {<<>>, <<1>>, <<1, 2>>}
        /\ sessions[c].spawned => sessions[c].stdin # <<>>
        /\ sessions[c].stdin = <<1, 2>> => ackSeen[c]

C1_Witness == sessions[1].stdin = <<1, 2>> /\ sessions[1].child = "running"

\* C2: when the deadline armed at spawn elapses on a session that is neither
\* Resolved nor Failed, the session becomes Failed with Timeout and kill has
\* been issued on the child.
C2_TimeoutAtDeadline ==
    [][\A c \in Channels :
         (~deadlinePassed[c] /\ deadlinePassed'[c] /\ sessions[c].promise = "pending")
         => /\ sessions'[c].promise = "rejected"
            /\ sessions'[c].reason.kind = "Timeout"
            /\ sessions'[c].killed]_vars

\* C3: a parsed JSON line that is neither a handshake acknowledgment nor
\* carries id 2 leaves the session unchanged: outcome, timer, kill and stdin.
C3_UncorrelatedIgnored ==
    [][\A data \in Chunks :
         (/\ StdoutData(1, data)
          /\ OneJsonLine(1, data)
          /\ ~IsAckShaped(JsonOf(1, data))
          /\ JsonOf(1, data).id # 2)
         => /\ sessions'[1].promise = sessions[1].promise
            /\ sessions'[1].value = sessions[1].value
            /\ sessions'[1].reason = sessions[1].reason
            /\ sessions'[1].timeout = sessions[1].timeout
            /\ sessions'[1].killed = sessions[1].killed
            /\ sessions'[1].stdin = sessions[1].stdin]_vars

\* C4: in a session awaiting its result (request written, not settled), a
\* response line, result or error, whose id is not 2 does not settle the
\* pending request.
C4_WrongIdDoesNotSettle ==
    [][\A data \in Chunks :
         (/\ StdoutData(1, data)
          /\ OneJsonLine(1, data)
          /\ sessions[1].requestSent
          /\ sessions[1].promise = "pending"
          /\ JsonOf(1, data).id # 2
          /\ (JsonOf(1, data).result # "absent" \/ JsonOf(1, data).error))
         => sessions'[1].promise = "pending"]_vars

\* C5: whenever a session has a terminal outcome, its child has exited or
\* kill has been issued on it.
C5_TerminalTearsDown ==
    \A c \in Channels :
        sessions[c].promise # "pending"
        => (sessions[c].child = "closed" \/ sessions[c].killed)

C5_Witness ==
    /\ sessions[1].promise = "resolved"
    /\ sessions[1].child = "running"
    /\ sessions[1].killed

\* C6: a close with a non-zero or null exit code on an unsettled session makes
\* it Failed with an exit-code fault naming that code, and a Failed session
\* never becomes Resolved.
C6_AbnormalCloseFails ==
    [][/\ \A code \in ExitCodes \ {"0"} :
            (Close(1, code) /\ sessions[1].promise = "pending")
            => /\ sessions'[1].promise = "rejected"
               /\ sessions'[1].reason = [kind |-> "ProcessExit", code |-> code]
       /\ sessions[1].promise = "rejected" => sessions'[1].promise = "rejected"]_vars

C6_Witness ==
    /\ sessions[1].promise = "rejected"
    /\ sessions[1].reason = [kind |-> "ProcessExit", code |-> "null"]
    /\ sessions[1].requestSent

\* C7: a correlated result line (id 2, result present) whose payload lacks
\* the expected shape, processed on an unsettled session, ends the session
\* Resolved with an empty record sequence.
C7_MalformedResolvesEmpty ==
    [][\A data \in Chunks :
         (/\ StdoutData(1, data)
          /\ OneJsonLine(1, data)
          /\ sessions[1].promise = "pending"
          /\ sessions[1].initialized
          /\ JsonOf(1, data).id = 2
          /\ JsonOf(1, data).result # "absent"
          /\ ~TextIsString(JsonOf(1, data)))
         => /\ sessions'[1].promise = "resolved"
            /\ sessions'[1].value = <<>>]_vars

\* C8: fetchChannelMessages never raises: main's promise is never rejected,
\* a fetch whose session failed can always return, and what it returns for a
\* failed session is the empty sequence.
C8_FetchNeverRaises ==
    /\ mainState # "failed"
    /\ (idx \in Channels /\ sessions[idx].promise = "rejected") => ENABLED AwaitResume
    /\ \A k \in 1..Len(channelData) :
          sessions[k].promise = "rejected" => channelData[k].messages = <<>>

C8_Witness ==
    /\ Len(channelData) = 2
    /\ sessions[1].reason.kind = "Timeout"
    /\ sessions[2].reason.kind = "ProtocolError"

\* C9: the orchestrator loop always goes on to produce a result for every
\* configured channel: as long as main has not finished, a step is possible.
C9_LoopNeverStalls == mainState = "done" \/ ENABLED MainNext

\* C10: channels are fetched one after another: at most one session is
\* unsettled, sessions are spawned in configuration order, and the session of
\* channel k+1 is spawned only after that of channel k has settled.
C10_OneSessionAtATime ==
    /\ Cardinality({c \in Channels :
                      sessions[c].spawned /\ sessions[c].promise = "pending"}) <= 1
    /\ \A c \in Channels : sessions[c].spawned <=> c <= idx
    /\ \A c \in Channels \ {1} :
          sessions[c].spawned => sessions[c - 1].promise # "pending"

C10_Witness ==
    /\ sessions[2].spawned
    /\ sessions[2].promise = "pending"
    /\ sessions[1].promise = "resolved"
    /\ sessions[1].child = "running"

\* C11: two feeds of the same stream that have consumed the same bytes, cut
\* into chunks in any two ways, have yielded the same lines and hold the same
\* carry buffer.
C11_SplittingInvariance ==
    reader.a.pos = reader.b.pos
    => /\ reader.a.lines = reader.b.lines
       /\ reader.a.buffer = reader.b.buffer

\* The record holding the given eight fields, by position.
RecordOf(fields) ==
    [UserID |-> fields[1], UserName |-> fields[2], RealName |-> fields[3],
     Channel |-> fields[4], ThreadTs |-> fields[5], Text |-> fields[6],
     Time |-> fields[7], Cursor |-> IF Len(fields) >= 8 THEN fields[8] ELSE <<>>]

\* C12: a data line one of whose fields is enclosed in double quotes, with
\* commas anywhere in its content and no quote in it, decodes to one record
\* in which that field is the content, commas kept and quotes stripped, and
\* every other field has its positional value.
C12_QuotedCommasLiteral ==
    \A p \in 0..(Len(DefaultFields) - 1), content \in Contents :
        (decoder.done /\ decoder.input = Join(<<HeaderStd, QuotedLine(p, content)>>, NL))
        => decoder.output = <<RecordOf(FieldsWith(p, content))>>

\* The records the selection rule gives for a payload without quotes: the
\* first line is dropped, and each further line with at least 7 fields whose
\* first field is not the header's first column name gives one record.
RECURSIVE Selection(_, _)
Selection(lines, headerFirst) ==
    IF lines = <<>> THEN <<>>
    ELSE LET fields == Split(Head(lines), Comma)
         IN (IF Len(fields) >= 7 /\ fields[1] # headerFirst
             THEN <<RecordOf(fields)>>
             ELSE <<>>) \o Selection(Tail(lines), headerFirst)

HasNoQuote(text) == \A i \in 1..Len(text) : text[i] # Quote

\* C13: decode drops the first line and returns, in order, one record for
\* each remaining line that has at least 7 fields and whose first field
\* differs from the header's first column name; empty and single-line input
\* give the empty sequence.
C13_SelectionRule ==
    (decoder.done /\ HasNoQuote(decoder.input))
    => LET lines == Split(decoder.input, NL)
       IN decoder.output =
            IF decoder.input = <<>> \/ Len(lines) < 2 THEN <<>>
            ELSE Selection(Tail(lines), Split(lines[1], Comma)[1])

\* a is b with some elements removed, the others in their order.
RECURSIVE IsSubsequence(_, _)
IsSubsequence(a, b) ==
    IF a = <<>> THEN TRUE
    ELSE IF b = <<>> THEN FALSE
    ELSE IF Head(a) = Head(b) THEN IsSubsequence(Tail(a), Tail(b))
    ELSE IsSubsequence(a, Tail(b))

\* The record's timestamp is there and, in milliseconds, at least the bound.
NotBefore(m, boundMs) ==
    m.Time # <<>> /\ ~ParseFloatMs(m.Time).nan /\ ParseFloatMs(m.Time).ms >= boundMs

C15_NonJsonDiscarded == sessions[1] = jsonOnly[1]

C15_Witness ==
    /\ skipped[1]
    /\ sessions[1].stdin = <<1, 2>>
    /\ sessions[1].promise = "resolved"

\* C16: a session is Resolved only after the handshake acknowledgment was
\* received and the 'tools/call' request was written.
C16_ResolvedOnlyAfterRequest ==
    \A c \in Channels :
        sessions[c].promise = "resolved"
        => (ackSeen[c] /\ sessions[c].stdin = <<1, 2>>)

\* C17: once a session has a terminal outcome, or kill has been issued on
\* its child, nothing more is written to the child's stdin.
C17_NoWriteAfterTerminal ==
    [][\A c \in Channels :
         (sessions[c].promise # "pending" \/ sessions[c].killed)
         => sessions'[c].stdin = sessions[c].stdin]_vars

=============================================================================
